---- MODULE Spec2Model ----
(***************************************************************************)
(* Hierarchical organisational folder system (Holdings -> Companies ->     *)
(* Departments -> real folders) with role based navigation.                *)
(*                                                                         *)
(* Strings are modelled as sequences of one-character strings so that the  *)
(* "kind:realId" identifier codec is computed (prefix test, concatenation, *)
(* prefix stripping) and not assumed.                                      *)
(***************************************************************************)
EXTENDS Integers, Sequences, FiniteSets, TLC

(***************************************************************************)
(* Bounds of the model                                                     *)
(***************************************************************************)
MaxHoldings == 1
MaxCompanies == 2
MaxDepartments == 2
MaxFolders == 2
MaxOrgDeletes == 1
MaxIdLen == 2
MaxListed == 3

(***************************************************************************)
(* Values                                                                  *)
(***************************************************************************)
\* Python None / JS null: a value that is no string
NULL == <<"null">>
\* the empty string ""
EMPTY == <<>>
\* a lookup that found nothing (Optional[...] = None)
None == [none |-> TRUE]

Digit == <<"1", "2", "3", "4", "5", "6", "7", "8", "9">>

\* ObjectIds handed out by the four collections (hexadecimal strings)
HoldingId(k) == <<"a", Digit[k]>>
CompanyId(k) == <<"b", Digit[k]>>
DepartmentId(k) == <<"d", Digit[k]>>
FolderId(k) == <<"f", Digit[k]>>

FolderNames == <<"A", "B">>

NameRank(n) == CHOOSE i \in 1..Len(FolderNames) : FolderNames[i] = n

(***************************************************************************)
(* Identifier codec                                                        *)
(***************************************************************************)
HOLDING_PREFIX == <<"h", "o", "l", "d", "i", "n", "g", ":">>
COMPANY_PREFIX == <<"c", "o", "m", "p", "a", "n", "y", ":">>
DEPARTMENT_PREFIX == <<"d", "e", "p", "a", "r", "t", "m", "e", "n", "t", ":">>

\* String.prototype.startsWith / str.startswith
startsWith(s, p) == /\ Len(s) >= Len(p)
                    /\ SubSeq(s, 1, Len(p)) = p

\* truthiness of an optional string: None and "" are falsy
Falsy(s) == s = NULL \/ s = EMPTY

is_virtual_folder_two_prefixes(folder_id) ==
    IF Falsy(folder_id) THEN FALSE
    ELSE \/ startsWith(folder_id, HOLDING_PREFIX)
         \/ startsWith(folder_id, COMPANY_PREFIX)

is_virtual_folder(folder_id) ==
    IF Falsy(folder_id) THEN FALSE
    ELSE \/ startsWith(folder_id, HOLDING_PREFIX)
         \/ startsWith(folder_id, COMPANY_PREFIX)
         \/ startsWith(folder_id, DEPARTMENT_PREFIX)

get_virtual_folder_type(folder_id) ==
    IF startsWith(folder_id, HOLDING_PREFIX) THEN "holding"
    ELSE IF startsWith(folder_id, COMPANY_PREFIX) THEN "company"
    ELSE IF startsWith(folder_id, DEPARTMENT_PREFIX) THEN "department"
    ELSE "null"

PrefixOf(kind) ==
    IF kind = "holding" THEN HOLDING_PREFIX
    ELSE IF kind = "company" THEN COMPANY_PREFIX
    ELSE DEPARTMENT_PREFIX

create_virtual_id(real_id, kind) == PrefixOf(kind) \o real_id

\* the text after the kind prefix; no string when the id carries no prefix
extract_real_id(folder_id) ==
    LET kind == get_virtual_folder_type(folder_id)
    IN IF kind = "null" THEN NULL
       ELSE SubSeq(folder_id, Len(PrefixOf(kind)) + 1, Len(folder_id))

Kinds == {"holding", "company", "department"}

(***************************************************************************)
(* State                                                                   *)
(***************************************************************************)
VARIABLES
    holdings,       \* holdings collection: id -> [name]
    companies,      \* companies collection: id -> [name, holding_id]
    departments,    \* departments collection: id -> [name, company_id]
    folders,        \* folders collection: id -> document
    nFolders,       \* folder ids handed out so far
    createdUnder,   \* history: the pairs <<folder id, department id>> of the
                    \* folders created under a department's virtual node and
                    \* neither moved nor deleted since
    last,           \* status of the last request served
    codec,          \* codec exercise: [step, kind, real_id, plain, ...]
    pathCall,       \* two successive path requests: [step, first, second, ...]
    creators,       \* two create-folder calls in flight: [step, calls]
    gather,         \* a company listing in flight: [step, pending, nodes, ...]
    fm              \* FileManager component state: [step, currentPath, ...]

vars ==
    <<holdings, companies, departments, folders, nFolders, createdUnder, last, codec,
      pathCall, creators, gather, fm>>

orgVars == <<holdings, companies, departments>>
storeVars == <<folders, nFolders, createdUnder>>

HoldingName(k) == <<"H1", "H2", "H3", "H4">>[k]
CompanyName(k) == <<"C1", "C2", "C3", "C4">>[k]
DepartmentName(k) == <<"D1", "D2", "D3", "D4">>[k]

\* position of an id in its collection's creation order
IdNum(id) == CHOOSE k \in 1..Len(Digit) : Digit[k] = id[2]

\* response statuses: success, InvalidOperation, NotFound, an unhandled exception
HTTP_200_OK == "200 OK"
HTTP_400_BAD_REQUEST == "400 Bad Request"
HTTP_404_NOT_FOUND == "404 Not Found"
HTTP_500_INTERNAL_SERVER_ERROR == "500 Internal Server Error"

(***************************************************************************)
(* Principals                                                              *)
(***************************************************************************)
SUPERADMIN == "superadmin"
ADMIN == "admin"
DEPARTMENT_DIRECTOR == "department_director"
USER == "user"

UserOf(role, company_id, department_id) ==
    [role |-> role, company_id |-> company_id, department_id |-> department_id]

HoldingIds == {HoldingId(k) : k \in 1..MaxHoldings}
CompanyIds == {CompanyId(k) : k \in 1..MaxCompanies}
DepartmentIds == {DepartmentId(k) : k \in 1..MaxDepartments}

\* the principals: one superadmin, an admin per company, a director and a
\* user per department
Users ==
    {UserOf(SUPERADMIN, EMPTY, EMPTY)}
    \cup {UserOf(ADMIN, c, EMPTY) : c \in CompanyIds}
    \cup {UserOf(r, EMPTY, d) : r \in {DEPARTMENT_DIRECTOR, USER}, d \in DepartmentIds}

FOLDER_CREATE == "folder.create"
FOLDER_READ == "folder.read"
FOLDER_DELETE == "folder.delete"
FOLDER_RENAME == "folder.rename"
FOLDER_MOVE == "folder.move"

ROLE_PERMISSIONS(role) ==
    IF role = USER THEN {FOLDER_READ}
    ELSE {FOLDER_CREATE, FOLDER_READ, FOLDER_DELETE, FOLDER_RENAME, FOLDER_MOVE}

\* the principals whose role grants the permission a route asks for
Permitted(permission) == {u \in Users : permission \in ROLE_PERMISSIONS(u.role)}

\* build_org_filter applied to one folder document
org_filter_matches_by_company(doc, user) ==
    IF user.role = SUPERADMIN THEN TRUE
    ELSE IF user.role = ADMIN THEN doc.company_id = user.company_id
    ELSE doc.company_id = user.company_id

org_filter_matches(doc, user) ==
    IF user.role = SUPERADMIN THEN TRUE
    ELSE IF user.role = ADMIN THEN doc.company_id = user.company_id
    ELSE doc.department_id = user.department_id

(***************************************************************************)
(* Organization service                                                    *)
(***************************************************************************)
RECURSIVE SortedSeq(_, _)
\* the elements of S as a list, ascending by Key (a pair <<rank, number>>)
KeyLess(a, b) == \/ a[1] < b[1]
                 \/ a[1] = b[1] /\ a[2] < b[2]

SortedSeq(S, keys) ==
    IF S = {} THEN <<>>
    ELSE LET m == CHOOSE x \in S : \A y \in S \ {x} : KeyLess(keys[x], keys[y])
         IN <<m>> \o SortedSeq(S \ {m}, keys)

ByCreation(S) == SortedSeq(S, [x \in S |-> <<0, IdNum(x)>>])

HoldingResponse(id) == [id |-> id, name |-> holdings[id].name]
CompanyResponse(id) ==
    [id |-> id, name |-> companies[id].name, holding_id |-> companies[id].holding_id]
DepartmentResponse(id) ==
    [id |-> id, name |-> departments[id].name, company_id |-> departments[id].company_id]

MapSeq(s, Op(_)) == [i \in 1..Len(s) |-> Op(s[i])]

list_holdings == MapSeq(ByCreation(DOMAIN holdings), HoldingResponse)

get_holding_by_id(holding_id) ==
    IF holding_id \in DOMAIN holdings THEN HoldingResponse(holding_id) ELSE None

list_companies_by_holding(holding_id) ==
    MapSeq(ByCreation({c \in DOMAIN companies : companies[c].holding_id = holding_id}),
           CompanyResponse)

get_company_by_id(company_id) ==
    IF company_id \in DOMAIN companies THEN CompanyResponse(company_id) ELSE None

list_departments_by_company(company_id) ==
    MapSeq(ByCreation({d \in DOMAIN departments : departments[d].company_id = company_id}),
           DepartmentResponse)

get_department_by_id(department_id) ==
    IF department_id \in DOMAIN departments THEN DepartmentResponse(department_id) ELSE None

(***************************************************************************)
(* Virtual folder service                                                  *)
(***************************************************************************)
FolderResponse(id, name, parentID, holding_id, company_id, department_id) ==
    [id |-> id, name |-> name, parentID |-> parentID,
     holding_id |-> holding_id, company_id |-> company_id,
     department_id |-> department_id]

holding_to_folder(holding) ==
    FolderResponse(create_virtual_id(holding.id, "holding"), holding.name, NULL,
                   holding.id, EMPTY, EMPTY)

company_to_folder(company) ==
    FolderResponse(create_virtual_id(company.id, "company"), company.name,
                   create_virtual_id(company.holding_id, "holding"),
                   company.holding_id, company.id, EMPTY)

department_to_folder_without_holding(department) ==
    FolderResponse(create_virtual_id(department.id, "department"), department.name,
                   create_virtual_id(department.company_id, "company"),
                   EMPTY, department.company_id, department.id)

department_to_folder(department) ==
    LET company == get_company_by_id(department.company_id)
        holding_id == IF company # None THEN company.holding_id ELSE EMPTY
    IN FolderResponse(create_virtual_id(department.id, "department"), department.name,
                      create_virtual_id(department.company_id, "company"),
                      holding_id, department.company_id, department.id)

get_virtual_folder_by_id(folder_id) ==
    LET folder_type == get_virtual_folder_type(folder_id)
        real_id == extract_real_id(folder_id)
    IN IF folder_type = "holding" THEN
           LET holding == get_holding_by_id(real_id)
           IN IF holding # None THEN holding_to_folder(holding) ELSE None
       ELSE IF folder_type = "company" THEN
           LET company == get_company_by_id(real_id)
           IN IF company # None THEN company_to_folder(company) ELSE None
       ELSE IF folder_type = "department" THEN
           LET department == get_department_by_id(real_id)
           IN IF department # None THEN department_to_folder(department) ELSE None
       ELSE None

\* FolderResponse(**doc) of a stored folder
DocResponse(id) ==
    FolderResponse(id, folders[id].name, folders[id].parentID, folders[id].holding_id,
                   folders[id].company_id, folders[id].department_id)

ByInsertion(S) == SortedSeq(S, [x \in S |-> <<0, IdNum(x)>>])

\* cursor.sort("name", 1); documents of equal name in insertion order
ByName(S) == SortedSeq(S, [x \in S |-> <<NameRank(folders[x].name), IdNum(x)>>])

department_subfolders_empty(real_id) == <<>>

department_subfolders_any_depth(real_id) ==
    MapSeq(ByName({f \in DOMAIN folders : folders[f].department_id = real_id}),
           DocResponse)

\* collection.find({"department_id": real_id, "parentID": None}).sort("name", 1)
department_subfolders(real_id) ==
    MapSeq(ByName({f \in DOMAIN folders : /\ folders[f].department_id = real_id
                                          /\ folders[f].parentID = NULL}),
           DocResponse)

get_virtual_subfolders(parent_id) ==
    LET folder_type == get_virtual_folder_type(parent_id)
        real_id == extract_real_id(parent_id)
    IN IF folder_type = "holding" THEN
           MapSeq(list_companies_by_holding(real_id), company_to_folder)
       ELSE IF folder_type = "company" THEN
           MapSeq(list_departments_by_company(real_id), department_to_folder)
       ELSE IF folder_type = "department" THEN
           department_subfolders(real_id)
       ELSE <<>>

get_root_folders_for_user(user) ==
    IF user.role = SUPERADMIN THEN
        MapSeq(list_holdings, holding_to_folder)
    ELSE IF user.role = ADMIN THEN
        MapSeq(list_departments_by_company(user.company_id), department_to_folder)
    ELSE <<>>

Failure(status) == [error |-> status]
IsFailure(r) == "error" \in DOMAIN r

\* the branches of resolve_parent_context for company and holding parents,
\* and for a parent whose entity is gone
resolve_other_context(folder_type, real_id) ==
    IF folder_type = "company" /\ get_company_by_id(real_id) # None THEN
        [holding_id |-> get_company_by_id(real_id).holding_id,
         company_id |-> real_id,
         department_id |-> EMPTY,
         is_virtual_parent |-> TRUE]
    ELSE IF folder_type = "holding" /\ get_holding_by_id(real_id) # None THEN
        [holding_id |-> real_id,
         company_id |-> EMPTY,
         department_id |-> EMPTY,
         is_virtual_parent |-> TRUE]
    ELSE Failure(HTTP_404_NOT_FOUND)

resolve_parent_context_no_holding(parent_id, user) ==
    LET folder_type == get_virtual_folder_type(parent_id)
        real_id == extract_real_id(parent_id)
        department == get_department_by_id(real_id)
    IN IF folder_type = "department" /\ department # None THEN
           [holding_id |-> EMPTY,
            company_id |-> department.company_id,
            department_id |-> real_id,
            is_virtual_parent |-> TRUE]
       ELSE resolve_other_context(folder_type, real_id)

resolve_parent_context_company_required(parent_id, user) ==
    LET folder_type == get_virtual_folder_type(parent_id)
        real_id == extract_real_id(parent_id)
        department == get_department_by_id(real_id)
    IN IF folder_type = "department" /\ department # None THEN
           LET company == get_company_by_id(department.company_id)
           IN IF company = None THEN Failure(HTTP_404_NOT_FOUND)
              ELSE [holding_id |-> company.holding_id,
                    company_id |-> department.company_id,
                    department_id |-> real_id,
                    is_virtual_parent |-> TRUE]
       ELSE resolve_other_context(folder_type, real_id)

resolve_parent_context_missing_unscoped(parent_id, user) ==
    LET folder_type == get_virtual_folder_type(parent_id)
        real_id == extract_real_id(parent_id)
        department == get_department_by_id(real_id)
    IN IF folder_type = "department" /\ department # None THEN
           LET company == get_company_by_id(department.company_id)
               holding_id == IF company # None THEN company.holding_id ELSE EMPTY
           IN [holding_id |-> holding_id,
               company_id |-> department.company_id,
               department_id |-> real_id,
               is_virtual_parent |-> TRUE]
       ELSE [holding_id |-> EMPTY, company_id |-> EMPTY, department_id |-> EMPTY,
             is_virtual_parent |-> TRUE]

resolve_parent_context(parent_id, user) ==
    LET folder_type == get_virtual_folder_type(parent_id)
        real_id == extract_real_id(parent_id)
        department == get_department_by_id(real_id)
    IN IF folder_type = "department" /\ department # None THEN
           LET company == get_company_by_id(department.company_id)
               holding_id == IF company # None THEN company.holding_id ELSE EMPTY
           IN [holding_id |-> holding_id,
               company_id |-> department.company_id,
               department_id |-> real_id,
               is_virtual_parent |-> TRUE]
       ELSE resolve_other_context(folder_type, real_id)

(***************************************************************************)
(* Folder service                                                          *)
(***************************************************************************)
\* collection.find_one({"_id": ObjectId(folder_id), **org_filter})
find_one(folder_id, user) ==
    IF folder_id \in DOMAIN folders /\ org_filter_matches(folders[folder_id], user)
    THEN DocResponse(folder_id)
    ELSE None

get_folder_by_id(folder_id, user) ==
    IF is_virtual_folder(folder_id) THEN get_virtual_folder_by_id(folder_id)
    ELSE find_one(folder_id, user)

get_subfolders(parent_id, user) ==
    IF is_virtual_folder(parent_id) THEN get_virtual_subfolders(parent_id)
    ELSE MapSeq(ByName({f \in DOMAIN folders :
                           /\ folders[f].parentID = parent_id
                           /\ org_filter_matches(folders[f], user)}),
                DocResponse)

\* {"$or": [{"parentID": None}, {"parentID": {"$exists": False}}], **org_filter}
real_root_folders(user) ==
    MapSeq(ByName({f \in DOMAIN folders :
                      /\ folders[f].parentID = NULL
                      /\ org_filter_matches(folders[f], user)}),
           DocResponse)

get_root_folders(user) ==
    LET virtual_folders == get_root_folders_for_user(user)
    IN IF virtual_folders # <<>> THEN virtual_folders
       ELSE real_root_folders(user)

\* one more than the longest walk over distinct nodes: every stored folder
\* once, then department, company, holding
WalkLimit == MaxFolders + 4

RECURSIVE walk_parents(_, _, _, _)
\* the while loop of get_folder_path; a walk that is still running after
\* WalkLimit iterations has met a node twice and never ends
walk_parents(current_id, user, path, steps) ==
    IF Falsy(current_id) THEN [ends |-> TRUE, path |-> path]
    ELSE IF steps = 0 THEN [ends |-> FALSE, path |-> path]
    ELSE LET folder == get_folder_by_id(current_id, user)
         IN IF folder = None THEN [ends |-> TRUE, path |-> path]
            ELSE walk_parents(folder.parentID, user, <<folder>> \o path, steps - 1)

virtual_prefix_without_fallback(first_folder) ==
    LET holding_id == first_folder.holding_id
        department_folder ==
            get_virtual_folder_by_id(create_virtual_id(first_folder.department_id, "department"))
        company_folder ==
            get_virtual_folder_by_id(create_virtual_id(first_folder.company_id, "company"))
        holding_folder ==
            get_virtual_folder_by_id(create_virtual_id(holding_id, "holding"))
        p1 == IF ~Falsy(first_folder.department_id) /\ department_folder # None
              THEN <<department_folder>> ELSE <<>>
        p2 == IF ~Falsy(first_folder.company_id) /\ company_folder # None
              THEN <<company_folder>> \o p1 ELSE p1
        p3 == IF ~Falsy(holding_id) /\ holding_folder # None
              THEN <<holding_folder>> \o p2 ELSE p2
    IN p3

virtual_prefix_department_first(first_folder) ==
    LET company == get_company_by_id(first_folder.company_id)
        holding_id ==
            IF Falsy(first_folder.holding_id) /\ ~Falsy(first_folder.company_id)
               /\ company # None
            THEN company.holding_id
            ELSE first_folder.holding_id
        department_folder ==
            get_virtual_folder_by_id(create_virtual_id(first_folder.department_id, "department"))
        company_folder ==
            get_virtual_folder_by_id(create_virtual_id(first_folder.company_id, "company"))
        holding_folder ==
            get_virtual_folder_by_id(create_virtual_id(holding_id, "holding"))
        p1 == IF ~Falsy(first_folder.department_id) /\ department_folder # None
              THEN <<department_folder>> ELSE <<>>
        p2 == IF ~Falsy(first_folder.company_id) /\ company_folder # None
              THEN p1 \o <<company_folder>> ELSE p1
        p3 == IF ~Falsy(holding_id) /\ holding_folder # None
              THEN p2 \o <<holding_folder>> ELSE p2
    IN p3

virtual_prefix(first_folder) ==
    LET company == get_company_by_id(first_folder.company_id)
        holding_id ==
            IF Falsy(first_folder.holding_id) /\ ~Falsy(first_folder.company_id)
               /\ company # None
            THEN company.holding_id
            ELSE first_folder.holding_id
        department_folder ==
            get_virtual_folder_by_id(create_virtual_id(first_folder.department_id, "department"))
        company_folder ==
            get_virtual_folder_by_id(create_virtual_id(first_folder.company_id, "company"))
        holding_folder ==
            get_virtual_folder_by_id(create_virtual_id(holding_id, "holding"))
        p1 == IF ~Falsy(first_folder.department_id) /\ department_folder # None
              THEN <<department_folder>> ELSE <<>>
        p2 == IF ~Falsy(first_folder.company_id) /\ company_folder # None
              THEN <<company_folder>> \o p1 ELSE p1
        p3 == IF ~Falsy(holding_id) /\ holding_folder # None
              THEN <<holding_folder>> \o p2 ELSE p2
    IN p3

get_folder_path_real_only(folder_id, user) ==
    walk_parents(folder_id, user, <<>>, WalkLimit)

get_folder_path_answers_once(folder_id, user) ==
    IF pathCall.step = "first" THEN [ends |-> TRUE, path |-> <<>>]
    ELSE walk_parents(folder_id, user, <<>>, WalkLimit)

get_folder_path_always_prefixed(folder_id, user) ==
    LET walk == walk_parents(folder_id, user, <<>>, WalkLimit)
        path == walk.path
    IN IF ~walk.ends THEN walk
       ELSE IF path = <<>> THEN [ends |-> TRUE, path |-> <<>>]
       ELSE [ends |-> TRUE, path |-> virtual_prefix(path[1]) \o path]

\* [ends, path]: ends is FALSE when the parent walk never terminates
get_folder_path(folder_id, user) ==
    LET walk == walk_parents(folder_id, user, <<>>, WalkLimit)
        path == walk.path
    IN IF ~walk.ends THEN walk
       ELSE IF path = <<>> THEN [ends |-> TRUE, path |-> <<>>]
       ELSE IF path[1].parentID = NULL
            THEN [ends |-> TRUE, path |-> virtual_prefix(path[1]) \o path]
            ELSE [ends |-> TRUE, path |-> path]

\* context of a folder created with no parent: unscoped
null_parent_context(user) ==
    [holding_id |-> EMPTY, company_id |-> EMPTY, department_id |-> EMPTY]

Result(status, store, id) == [status |-> status, folders |-> store, id |-> id]

insert_folder_reusing_id(name, actual_parent_id, org_ids) ==
    LET id == FolderId(IF nFolders = 0 THEN 1 ELSE nFolders)
        doc == [name |-> name, parentID |-> actual_parent_id,
                holding_id |-> org_ids.holding_id,
                company_id |-> org_ids.company_id,
                department_id |-> org_ids.department_id]
    IN Result(HTTP_200_OK, [f \in DOMAIN folders \cup {id} |->
                               IF f = id THEN doc ELSE folders[f]], id)

\* insert_one of a new folder document
insert_folder(name, actual_parent_id, org_ids) ==
    LET id == FolderId(nFolders + 1)
        doc == [name |-> name, parentID |-> actual_parent_id,
                holding_id |-> org_ids.holding_id,
                company_id |-> org_ids.company_id,
                department_id |-> org_ids.department_id]
    IN Result(HTTP_200_OK, [f \in DOMAIN folders \cup {id} |->
                               IF f = id THEN doc ELSE folders[f]], id)

create_folder_rederiving(folder_data, user) ==
    IF ~Falsy(folder_data.parentID) THEN
        LET parent_folder == get_folder_by_id(folder_data.parentID, user)
        IN IF parent_folder = None
           THEN Result(HTTP_500_INTERNAL_SERVER_ERROR, folders, NULL)
           ELSE LET parent_context ==
                        resolve_parent_context(
                            create_virtual_id(parent_folder.department_id, "department"), user)
                IN IF IsFailure(parent_context)
                   THEN Result(parent_context.error, folders, NULL)
                   ELSE insert_folder(folder_data.name,
                                      IF is_virtual_folder(folder_data.parentID)
                                      THEN NULL ELSE folder_data.parentID,
                                      [company_id |-> parent_context.company_id,
                                       department_id |-> parent_context.department_id,
                                       holding_id |-> parent_context.holding_id])
    ELSE insert_folder(folder_data.name, NULL, null_parent_context(user))

create_folder_keeping_parent(folder_data, user) ==
    IF ~Falsy(folder_data.parentID) /\ is_virtual_folder(folder_data.parentID) THEN
        LET parent_context == resolve_parent_context(folder_data.parentID, user)
        IN IF IsFailure(parent_context)
           THEN Result(parent_context.error, folders, NULL)
           ELSE insert_folder(folder_data.name, folder_data.parentID,
                              [company_id |-> parent_context.company_id,
                               department_id |-> parent_context.department_id,
                               holding_id |-> parent_context.holding_id])
    ELSE insert_folder(folder_data.name, NULL, null_parent_context(user))

create_folder(folder_data, user) ==
    IF ~Falsy(folder_data.parentID) THEN
        IF is_virtual_folder(folder_data.parentID) THEN
            LET parent_context == resolve_parent_context(folder_data.parentID, user)
            IN IF IsFailure(parent_context)
               THEN Result(parent_context.error, folders, NULL)
               ELSE insert_folder(folder_data.name, NULL,
                                  [company_id |-> parent_context.company_id,
                                   department_id |-> parent_context.department_id,
                                   holding_id |-> parent_context.holding_id])
        ELSE
            LET parent_folder == get_folder_by_id(folder_data.parentID, user)
            IN IF parent_folder = None
               \* parent_folder.company_id on None raises
               THEN Result(HTTP_500_INTERNAL_SERVER_ERROR, folders, NULL)
               ELSE insert_folder(folder_data.name, folder_data.parentID,
                                  [company_id |-> parent_folder.company_id,
                                   department_id |-> parent_folder.department_id,
                                   holding_id |-> parent_folder.holding_id])
    ELSE insert_folder(folder_data.name, NULL, null_parent_context(user))

\* update_one({"_id": folder_id, **org_filter}, {"$set": {"name": name}})
rename_real_folder(folder_id, name, user) ==
    IF find_one(folder_id, user) = None THEN Result(HTTP_404_NOT_FOUND, folders, NULL)
    ELSE Result(HTTP_200_OK,
                [folders EXCEPT ![folder_id] = [@ EXCEPT !.name = name]], folder_id)

\* delete_one({"_id": folder_id, **org_filter})
delete_real_folder(folder_id, user) ==
    IF find_one(folder_id, user) = None THEN Result(HTTP_404_NOT_FOUND, folders, NULL)
    ELSE Result(HTTP_200_OK,
                [f \in DOMAIN folders \ {folder_id} |-> folders[f]], folder_id)

rename_folder_unguarded(folder_id, name, user) ==
    rename_real_folder(folder_id, name, user)

\* PUT /{folder_id}/rename
rename_folder(folder_id, name, user) ==
    IF is_virtual_folder(folder_id)
    THEN Result(HTTP_400_BAD_REQUEST, folders, NULL)
    ELSE rename_real_folder(folder_id, name, user)

\* DELETE /{folder_id}
delete_folder(folder_id, user) ==
    IF is_virtual_folder(folder_id)
    THEN Result(HTTP_400_BAD_REQUEST, folders, NULL)
    ELSE delete_real_folder(folder_id, user)

\* PUT /{folder_id}/move?new_parent_id={parent_id}
move_folder(folder_id, new_parent_id, user) ==
    IF is_virtual_folder(folder_id)
    THEN Result(HTTP_400_BAD_REQUEST, folders, NULL)
    ELSE IF find_one(folder_id, user) = None
    THEN Result(HTTP_404_NOT_FOUND, folders, NULL)
    ELSE IF Falsy(new_parent_id)
    THEN Result(HTTP_200_OK,
                [folders EXCEPT ![folder_id] = [@ EXCEPT !.parentID = NULL]], folder_id)
    ELSE IF find_one(new_parent_id, user) = None
    THEN Result(HTTP_404_NOT_FOUND, folders, NULL)
    ELSE Result(HTTP_200_OK,
                [folders EXCEPT ![folder_id] = [@ EXCEPT !.parentID = new_parent_id]],
                folder_id)

\* GET /{folder_id}: the folder, or "Folder not found"
get_folder_response(folder_id, user) ==
    LET folder == get_folder_by_id(folder_id, user)
    IN IF folder = None THEN [status |-> HTTP_404_NOT_FOUND, body |-> <<>>]
       ELSE [status |-> HTTP_200_OK, body |-> <<folder>>]

\* GET /: the stored folders the caller's filter admits
get_folders_response(user) ==
    [status |-> HTTP_200_OK,
     body |-> MapSeq(ByName({f \in DOMAIN folders : org_filter_matches(folders[f], user)}),
                     DocResponse)]

\* GET /root
get_root_folders_response(user) ==
    [status |-> HTTP_200_OK, body |-> get_root_folders(user)]

\* the GET routes of the folders router one path segment deep, in the order
\* of their registration
ROOT == <<"r", "o", "o", "t">>

router_by_id_first == <<"/", "/{folder_id}", "/root">>

router == <<"/", "/root", "/{folder_id}">>

route_matches(route, path) ==
    IF route = "/" THEN path = EMPTY
    ELSE IF route = "/root" THEN path = ROOT
    ELSE path # EMPTY /\ \A i \in 1..Len(path) : path[i] # "/"

\* routes are tried in order; the first that matches serves the request
dispatch(path) ==
    LET hits == {i \in 1..Len(router) : route_matches(router[i], path)}
    IN IF hits = {} THEN "no route"
       ELSE router[CHOOSE i \in hits : \A j \in hits : i <= j]

\* GET /folders/<path>
get_request(path, user) ==
    LET route == dispatch(path)
    IN IF route = "/" THEN get_folders_response(user)
       ELSE IF route = "/root" THEN get_root_folders_response(user)
       ELSE IF route = "/{folder_id}" THEN get_folder_response(path, user)
       ELSE [status |-> HTTP_404_NOT_FOUND, body |-> <<>>]

\* GET /{folder_id}/subfolders: the list the service returns, empty or not
get_subfolders_response(folder_id, user) ==
    [status |-> HTTP_200_OK, body |-> get_subfolders(folder_id, user)]

\* GET /{folder_id}/path: the list the service returns, empty or not
get_folder_path_response(folder_id, user) ==
    [status |-> HTTP_200_OK, body |-> get_folder_path(folder_id, user).path]

(***************************************************************************)
(* Requests                                                                *)
(***************************************************************************)
\* ids a caller can name: every id a collection has handed out, deleted or not
FolderIdInputs == {FolderId(k) : k \in 1..nFolders}
DepartmentNodeIds == {create_virtual_id(d, "department") : d \in DepartmentIds}
VirtualIdInputs ==
    {create_virtual_id(h, "holding") : h \in HoldingIds}
    \cup {create_virtual_id(c, "company") : c \in CompanyIds}
    \cup DepartmentNodeIds
IdInputs == FolderIdInputs \cup VirtualIdInputs
\* ids with a prefix that is none of the three kinds, before the separator
MalformedIdInputs ==
    {<<"f", "o", "l", "d", "e", "r", ":">> \o r : r \in FolderIdInputs \cup DepartmentIds}
    \cup {<<"u", "s", "e", "r", ":">> \o r : r \in FolderIdInputs \cup DepartmentIds}
ReadInputs == IdInputs \cup MalformedIdInputs
NameInputs == {FolderNames[i] : i \in 1..Len(FolderNames)}

EmptyCollection == [x \in {} |-> None]

\* the organization directories built through createHolding, createCompany
\* and createDepartment: the empty directory of a fresh installation, and
\* the full ones, where every company names a holding, every department a
\* company, and the first department sits in the first company
OrgDirectories ==
    {[holdings |-> EmptyCollection, companies |-> EmptyCollection,
      departments |-> EmptyCollection]}
    \cup
    {[holdings |-> [h \in HoldingIds |-> [name |-> HoldingName(IdNum(h))]],
      companies |-> [c \in CompanyIds |->
                        [name |-> CompanyName(IdNum(c)), holding_id |-> ch[c]]],
      departments |-> [d \in DepartmentIds |->
                          [name |-> DepartmentName(IdNum(d)), company_id |-> dc[d]]]] :
        ch \in [CompanyIds -> HoldingIds],
        dc \in {f \in [DepartmentIds -> CompanyIds] : f[DepartmentId(1)] = CompanyId(1)}}

Init ==
    /\ \E org \in OrgDirectories :
          /\ holdings = org.holdings
          /\ companies = org.companies
          /\ departments = org.departments
    /\ folders = EmptyCollection
    /\ nFolders = 0
    /\ createdUnder = {}
    /\ last = HTTP_200_OK
    /\ codec = [step |-> "off"]
    /\ pathCall = [step |-> "off"]
    /\ creators = [step |-> "off"]
    /\ gather = [step |-> "off"]
    /\ fm = [step |-> "off"]

Remove(f, k) == [x \in DOMAIN f \ {k} |-> f[x]]

\* the entities deleted so far; none in a directory that never had any
OrgDeletes ==
    IF DOMAIN holdings \cup DOMAIN companies \cup DOMAIN departments = {} THEN MaxOrgDeletes
    ELSE (MaxHoldings - Cardinality(DOMAIN holdings))
         + (MaxCompanies - Cardinality(DOMAIN companies))
         + (MaxDepartments - Cardinality(DOMAIN departments))

\* is_deleted = true: the entity no longer appears in lookups or listings
DeleteHolding ==
    \E holding_id \in DOMAIN holdings :
        /\ OrgDeletes < MaxOrgDeletes
        /\ holdings' = Remove(holdings, holding_id)
        /\ last' = HTTP_200_OK
        /\ UNCHANGED <<companies, departments, storeVars, codec, pathCall, creators, gather, fm>>

DeleteCompany ==
    \E company_id \in DOMAIN companies :
        /\ OrgDeletes < MaxOrgDeletes
        /\ companies' = Remove(companies, company_id)
        /\ last' = HTTP_200_OK
        /\ UNCHANGED <<holdings, departments, storeVars, codec, pathCall, creators, gather, fm>>

DeleteDepartment ==
    \E department_id \in DOMAIN departments :
        /\ OrgDeletes < MaxOrgDeletes
        /\ departments' = Remove(departments, department_id)
        /\ last' = HTTP_200_OK
        /\ UNCHANGED <<holdings, companies, storeVars, codec, pathCall, creators, gather, fm>>

\* Each request handler below is applied to every caller and input; inputs
\* with the same outcome lead to the same successor state.

\* the department a successful creation under parentID is recorded for
RecordedUnder(r, parentID) ==
    IF r.status = HTTP_200_OK /\ get_virtual_folder_type(parentID) = "department"
    THEN {<<r.id, extract_real_id(parentID)>>}
    ELSE {}

\* the history without the folder a successful delete or move acted on
Forget(r) ==
    IF r.status = HTTP_200_OK THEN {p \in createdUnder : p[1] # r.id}
    ELSE createdUnder

\* POST /folders/
CreateFolderUpTo(limit) ==
    /\ nFolders < limit
    /\ \E c \in {[r |-> create_folder([name |-> name, parentID |-> parentID], user),
                  under |-> parentID] :
                    user \in Permitted(FOLDER_CREATE), name \in NameInputs,
                    parentID \in {NULL} \cup FolderIdInputs \cup DepartmentNodeIds} :
          /\ folders' = c.r.folders
          /\ nFolders' = IF c.r.status = HTTP_200_OK THEN nFolders + 1 ELSE nFolders
          /\ createdUnder' = createdUnder \cup RecordedUnder(c.r, c.under)
          /\ last' = c.r.status
    /\ UNCHANGED <<orgVars, codec, pathCall, creators, gather, fm>>

CreateFolder == CreateFolderUpTo(MaxFolders)

\* PUT /folders/{folder_id}/rename
RenameFolder ==
    /\ \E r \in {rename_folder(folder_id, name, user) :
                    user \in Permitted(FOLDER_RENAME), folder_id \in IdInputs,
                    name \in NameInputs} :
          /\ folders' = r.folders
          /\ last' = r.status
    /\ UNCHANGED <<orgVars, nFolders, createdUnder, codec, pathCall, creators, gather, fm>>

\* DELETE /folders/{folder_id}
DeleteFolder ==
    /\ \E r \in {delete_folder(folder_id, user) :
                    user \in Permitted(FOLDER_DELETE), folder_id \in IdInputs} :
          /\ folders' = r.folders
          /\ createdUnder' = Forget(r)
          /\ last' = r.status
    /\ UNCHANGED <<orgVars, nFolders, codec, pathCall, creators, gather, fm>>

\* PUT /folders/{folder_id}/move
MoveFolder ==
    /\ \E r \in {move_folder(folder_id, new_parent_id, user) :
                    user \in Permitted(FOLDER_MOVE), folder_id \in IdInputs,
                    new_parent_id \in {NULL} \cup IdInputs} :
          /\ folders' = r.folders
          /\ createdUnder' = Forget(r)
          /\ last' = r.status
    /\ UNCHANGED <<orgVars, nFolders, codec, pathCall, creators, gather, fm>>

\* GET /folders/
GetFolders ==
    /\ \E status \in {get_request(EMPTY, user).status : user \in Permitted(FOLDER_READ)} :
          last' = status
    /\ UNCHANGED <<orgVars, storeVars, codec, pathCall, creators, gather, fm>>

\* GET /folders/root
GetRootFolders ==
    /\ \E status \in {get_request(ROOT, user).status : user \in Permitted(FOLDER_READ)} :
          last' = status
    /\ UNCHANGED <<orgVars, storeVars, codec, pathCall, creators, gather, fm>>

\* GET /folders/{folder_id}
GetFolderById ==
    /\ \E status \in {get_request(folder_id, user).status :
                         user \in Permitted(FOLDER_READ), folder_id \in ReadInputs} :
          last' = status
    /\ UNCHANGED <<orgVars, storeVars, codec, pathCall, creators, gather, fm>>

\* GET /folders/{folder_id}/subfolders
GetSubfolders ==
    /\ \E status \in {get_subfolders_response(folder_id, user).status :
                         user \in Permitted(FOLDER_READ), folder_id \in ReadInputs} :
          last' = status
    /\ UNCHANGED <<orgVars, storeVars, codec, pathCall, creators, gather, fm>>

\* GET /folders/{folder_id}/path; the request is answered when the walk ends
GetFolderPath ==
    /\ \E status \in {get_folder_path_response(q[1], q[2]).status :
                         q \in {c \in ReadInputs \X Permitted(FOLDER_READ) :
                                   get_folder_path(c[1], c[2]).ends}} :
          last' = status
    /\ UNCHANGED <<orgVars, storeVars, codec, pathCall, creators, gather, fm>>

Next ==
    \/ DeleteHolding
    \/ DeleteCompany
    \/ DeleteDepartment
    \/ CreateFolder
    \/ RenameFolder
    \/ DeleteFolder
    \/ MoveFolder
    \/ GetFolders
    \/ GetRootFolders
    \/ GetFolderById
    \/ GetSubfolders
    \/ GetFolderPath

Spec == Init /\ [][Next]_vars

(***************************************************************************)
(* The identifier codec on its own: encode, then decode and classify       *)
(***************************************************************************)
IdAlphabet == {"a", "1"}

RECURSIVE StringsUpTo(_)
\* the non-empty strings over IdAlphabet of length at most n
StringsUpTo(n) ==
    IF n = 0 THEN {}
    ELSE LET shorter == StringsUpTo(n - 1)
         IN {<<c>> : c \in IdAlphabet} \cup shorter
            \cup {s \o <<c>> : s \in shorter, c \in IdAlphabet}

RealIdInputs == StringsUpTo(MaxIdLen)

\* ids a caller may pass where a folder id is expected
PlainInputs ==
    {NULL, EMPTY}
    \cup RealIdInputs
    \cup {<<":">> \o r : r \in RealIdInputs}
    \cup {SubSeq(PrefixOf(k), 1, Len(PrefixOf(k)) - 1) \o r : k \in Kinds, r \in RealIdInputs}
    \cup {<<"f", "o", "l", "d", "e", "r", ":">> \o r : r \in RealIdInputs}
    \cup {<<"H">> \o Tail(HOLDING_PREFIX) \o r : r \in RealIdInputs}
    \cup {<<"a">> \o PrefixOf(k) \o r : k \in Kinds, r \in RealIdInputs}
    \cup {PrefixOf(k) : k \in Kinds}
    \cup {create_virtual_id(r, k) : k \in Kinds, r \in RealIdInputs}

InitCodec ==
    /\ \E org \in OrgDirectories :
          /\ holdings = org.holdings
          /\ companies = org.companies
          /\ departments = org.departments
    /\ folders = EmptyCollection
    /\ nFolders = 0
    /\ createdUnder = {}
    /\ last = HTTP_200_OK
    /\ pathCall = [step |-> "off"]
    /\ creators = [step |-> "off"]
    /\ gather = [step |-> "off"]
    /\ fm = [step |-> "off"]
    /\ \E kind \in Kinds, real_id \in RealIdInputs, plain \in PlainInputs :
          codec = [step |-> "input", kind |-> kind, real_id |-> real_id, plain |-> plain,
                   encoded |-> NULL, decoded |-> NULL, kindOf |-> "null",
                   virtual |-> FALSE, plainVirtual |-> FALSE]

Encode ==
    /\ codec.step = "input"
    /\ codec' = [codec EXCEPT !.step = "encoded",
                              !.encoded = create_virtual_id(codec.real_id, codec.kind)]
    /\ UNCHANGED <<orgVars, storeVars, last, pathCall, creators, gather, fm>>

Decode ==
    /\ codec.step = "encoded"
    /\ codec' = [codec EXCEPT !.step = "decoded",
                              !.decoded = extract_real_id(codec.encoded),
                              !.kindOf = get_virtual_folder_type(codec.encoded),
                              !.virtual = is_virtual_folder(codec.encoded)]
    /\ UNCHANGED <<orgVars, storeVars, last, pathCall, creators, gather, fm>>

Classify ==
    /\ codec.step = "decoded"
    /\ codec' = [codec EXCEPT !.step = "classified",
                              !.plainVirtual = is_virtual_folder(codec.plain)]
    /\ UNCHANGED <<orgVars, storeVars, last, pathCall, creators, gather, fm>>

NextCodec ==
    \/ Encode
    \/ Decode
    \/ Classify

SpecCodec == InitCodec /\ [][NextCodec]_vars

(***************************************************************************)
(* Two path requests in a row: after any sequence of mutations every       *)
(* reader asks for the path of every id, then asks again                   *)
(***************************************************************************)
PathRequests == IdInputs \X Permitted(FOLDER_READ)

\* the answers of GET /folders/{folder_id}/path to every request
PathAnswers == [q \in PathRequests |-> get_folder_path(q[1], q[2])]

Database == <<holdings, companies, departments, folders>>

Mutation ==
    /\ pathCall.step = "off"
    /\ \/ DeleteHolding
       \/ DeleteCompany
       \/ DeleteDepartment
       \/ CreateFolder
       \/ RenameFolder
       \/ DeleteFolder
       \/ MoveFolder

FirstPathCall ==
    /\ pathCall.step = "off"
    /\ pathCall' = [step |-> "first", before |-> Database, first |-> PathAnswers]
    /\ last' = HTTP_200_OK
    /\ UNCHANGED <<orgVars, storeVars, codec, creators, gather, fm>>

SecondPathCall ==
    /\ pathCall.step = "first"
    /\ pathCall' = [step |-> "second", before |-> pathCall.before,
                    first |-> pathCall.first, second |-> PathAnswers]
    /\ last' = HTTP_200_OK
    /\ UNCHANGED <<orgVars, storeVars, codec, creators, gather, fm>>

NextPath ==
    \/ Mutation
    \/ FirstPathCall
    \/ SecondPathCall

SpecPath == Init /\ [][NextPath]_vars

(***************************************************************************)
(* Two create-folder calls under one department node, in flight together:  *)
(* each call awaits resolve_parent_context, then inserts its document      *)
(***************************************************************************)
CreateCalls ==
    {[user |-> user, name |-> name, pc |-> "resolve", context |-> None,
      status |-> HTTP_200_OK, id |-> NULL] :
        user \in Permitted(FOLDER_CREATE), name \in NameInputs}

DirectoryChange ==
    /\ creators.step = "off"
    /\ \/ DeleteHolding
       \/ DeleteCompany
       \/ DeleteDepartment

\* two POST /folders/ requests arrive with the same department:{id} parent
StartCreators ==
    /\ creators.step = "off"
    /\ \E parentID \in DepartmentNodeIds, first \in CreateCalls, second \in CreateCalls :
          creators' = [step |-> "running", parentID |-> parentID,
                       calls |-> <<first, second>>]
    /\ UNCHANGED <<orgVars, storeVars, last, codec, pathCall, gather, fm>>

\* parent_context = await resolve_parent_context(folder_data.parentID, user)
ResolveContext(i) ==
    /\ creators.step = "running"
    /\ creators.calls[i].pc = "resolve"
    /\ LET call == creators.calls[i]
           parent_context == resolve_parent_context(creators.parentID, call.user)
       IN creators' =
              [creators EXCEPT !.calls[i] =
                  IF IsFailure(parent_context)
                  THEN [call EXCEPT !.pc = "done", !.status = parent_context.error]
                  ELSE [call EXCEPT !.pc = "insert", !.context = parent_context]]
    /\ UNCHANGED <<orgVars, storeVars, last, codec, pathCall, gather, fm>>

\* the insert of the document with org_ids and actual_parent_id = None
InsertFolder(i) ==
    /\ creators.step = "running"
    /\ creators.calls[i].pc = "insert"
    /\ LET call == creators.calls[i]
           r == insert_folder(call.name, NULL,
                              [company_id |-> call.context.company_id,
                               department_id |-> call.context.department_id,
                               holding_id |-> call.context.holding_id])
       IN /\ folders' = r.folders
          /\ nFolders' = nFolders + 1
          /\ createdUnder' = createdUnder \cup RecordedUnder(r, creators.parentID)
          /\ last' = r.status
          /\ creators' = [creators EXCEPT !.calls[i] =
                              [call EXCEPT !.pc = "done", !.status = r.status, !.id = r.id]]
    /\ UNCHANGED <<orgVars, codec, pathCall, gather, fm>>

NextCreate ==
    \/ DirectoryChange
    \/ StartCreators
    \/ \E i \in 1..2 : ResolveContext(i)
    \/ \E i \in 1..2 : InsertFolder(i)

SpecCreate == Init /\ [][NextCreate]_vars

(***************************************************************************)
(* Listings of a store that only grows and is renamed: enough folders for  *)
(* a stored parent to have several children                                *)
(***************************************************************************)
CreateListedFolder == CreateFolderUpTo(MaxListed)

NextList ==
    \/ CreateListedFolder
    \/ RenameFolder
    \/ GetSubfolders

SpecList == Init /\ [][NextList]_vars

(***************************************************************************)
(* A store that holds a folder created under a department node before      *)
(* resolve_parent_context fetched the holding id: holding_id = ""          *)
(***************************************************************************)
InitLegacy ==
    /\ \E org \in {o \in OrgDirectories : DOMAIN o.departments # {}},
          d \in DepartmentIds, name \in NameInputs :
          /\ holdings = org.holdings
          /\ companies = org.companies
          /\ departments = org.departments
          /\ folders = [f \in {FolderId(1)} |->
                           [name |-> name, parentID |-> NULL, holding_id |-> EMPTY,
                            company_id |-> org.departments[d].company_id,
                            department_id |-> d]]
          /\ createdUnder = {<<FolderId(1), d>>}
    /\ nFolders = 1
    /\ last = HTTP_200_OK
    /\ codec = [step |-> "off"]
    /\ pathCall = [step |-> "off"]
    /\ creators = [step |-> "off"]
    /\ gather = [step |-> "off"]
    /\ fm = [step |-> "off"]

NextLegacy ==
    \/ DeleteHolding
    \/ DeleteCompany
    \/ DeleteDepartment
    \/ CreateFolder
    \/ GetFolderPath

SpecLegacy == InitLegacy /\ [][NextLegacy]_vars

(***************************************************************************)
(* The company branch of get_virtual_subfolders step by step: the          *)
(* department list is read, one department_to_folder per department runs   *)
(* concurrently, asyncio.gather returns when all of them have completed     *)
(***************************************************************************)
QuietDirectoryChange ==
    /\ gather.step = "off"
    /\ DirectoryChange

\* GET /{folder_id}/subfolders of a company node:
\* departments = await organization_service.list_departments_by_company(real_id)
StartGather ==
    /\ gather.step = "off"
    /\ \E company_id \in CompanyIds, user \in Permitted(FOLDER_READ) :
          LET listed == list_departments_by_company(company_id)
          IN gather' = [step |-> "lookups", company_id |-> company_id, user |-> user,
                        departments |-> listed,
                        pending |-> 1..Len(listed),
                        nodes |-> [i \in 1..Len(listed) |-> None],
                        order |-> <<>>, result |-> <<>>]
    /\ UNCHANGED <<orgVars, storeVars, last, codec, pathCall, creators, fm>>

\* one department_to_folder completes: its company lookup has answered
CompleteLookup(i) ==
    /\ gather.step = "lookups"
    /\ i \in gather.pending
    /\ gather' = [gather EXCEPT
                      !.pending = @ \ {i},
                      !.nodes[i] = department_to_folder(gather.departments[i]),
                      !.order = Append(@, i)]
    /\ UNCHANGED <<orgVars, storeVars, last, codec, pathCall, creators, fm>>

gather_returns_on_first(pending, awaited) == Cardinality(pending) < awaited

\* asyncio.gather returns when every awaitable has completed
gather_returns(pending, awaited) == pending = {}

\* the results, in the order of the awaitables
JoinGather ==
    /\ gather.step = "lookups"
    /\ gather_returns(gather.pending, Len(gather.departments))
    /\ gather' = [gather EXCEPT !.step = "returned", !.result = gather.nodes]
    /\ last' = HTTP_200_OK
    /\ UNCHANGED <<orgVars, storeVars, codec, pathCall, creators, fm>>

NextGather ==
    \/ QuietDirectoryChange
    \/ StartGather
    \/ \E i \in 1..MaxDepartments : CompleteLookup(i)
    \/ JoinGather

SpecGather == Init /\ [][NextGather]_vars

(***************************************************************************)
(* FileManager component (file-manager.tsx)                                *)
(***************************************************************************)
\* folders created, initial folders and files the user acts on
MaxCreated == 1
MaxClickedFolder == 2
MaxMovedFile == 1

null == "null"

SPACE == " "

RECURSIVE trimStart(_)
trimStart(s) == IF s # <<>> /\ Head(s) = SPACE THEN trimStart(Tail(s)) ELSE s

RECURSIVE trimEnd(_)
trimEnd(s) ==
    IF s # <<>> /\ s[Len(s)] = SPACE THEN trimEnd(SubSeq(s, 1, Len(s) - 1)) ELSE s

\* String.prototype.trim
trim(s) == trimEnd(trimStart(s))

NEW_FOLDER == <<"N","e","w"," ","f","o","l","d","e","r">>

\* useState defaults
initialPath == <<[id |-> "root", name |-> <<"h","o","m","e">>],
                 [id |-> "user", name |-> <<"u","s","e","r">>]>>

initialFolderIds == <<"1", "2", "3", "4", "5">>

\* the fifth name is Cyrillic in the source and written in Latin letters here
initialFolders ==
    [id \in {"1", "2", "3", "4", "5"} |->
        [name |-> CASE id = "1" -> <<"D","o","c","u","m","e","n","t","s">>
                    [] id = "2" -> <<"P","r","o","j","e","c","t","s">>
                    [] id = "3" -> <<"f","g">>
                    [] id = "4" -> <<"d","i","m","a">>
                    [] id = "5" -> <<"M","a","r","i","y","a","M","a","r","i","y","a">>,
         parentId |-> null]]

initialFileIds == <<"f1", "f2", "f3">>

initialFiles == [id \in {"f1", "f2", "f3"} |-> [parentId |-> null]]

\* Date.now().toString(): a decimal timestamp, one per creation
newFolderId(tick) == "t" \o ToString(tick)

\* what the user types into the name input
TypedNames == {<<>>, <<SPACE>>, <<"a", SPACE>>}

\* Array.prototype.slice(0, end) for end >= 0
slice(path, end) == SubSeq(path, 1, IF end < Len(path) THEN end ELSE Len(path))

visibleFolders(s) == {f \in DOMAIN s.folders : s.folders[f].parentId = s.currentFolderId}

visibleFiles(s) == {f \in DOMAIN s.files : s.files[f].parentId = s.currentFolderId}

\* the folders and files within the user's reach in this model
ClickedFolders(s) ==
    {f \in visibleFolders(s) :
        f \notin {initialFolderIds[i] : i \in (MaxClickedFolder + 1)..Len(initialFolderIds)}}

MovedFiles(s) ==
    {f \in visibleFiles(s) :
        f \in {initialFileIds[i] : i \in {j \in 1..Len(initialFileIds) : j <= MaxMovedFile}}}

handleCreateFolder(s) ==
    LET id == newFolderId(s.tick)
    IN [s EXCEPT !.folders = [f \in DOMAIN s.folders \cup {id} |->
                                 IF f = id
                                 THEN [name |-> NEW_FOLDER, parentId |-> s.currentFolderId]
                                 ELSE s.folders[f]],
                 !.tick = @ + 1,
                 !.editingFolderId = id,
                 !.editingName = NEW_FOLDER]

handleSaveFolderName(s) ==
    LET stored ==
            IF s.editingFolderId # null /\ trim(s.editingName) # <<>>
            THEN [f \in DOMAIN s.folders |->
                     IF f = s.editingFolderId
                     THEN [s.folders[f] EXCEPT !.name = trim(s.editingName)]
                     ELSE s.folders[f]]
            ELSE IF s.editingFolderId # null /\ trim(s.editingName) = <<>>
            THEN [f \in DOMAIN s.folders \ {s.editingFolderId} |-> s.folders[f]]
            ELSE s.folders
    IN [s EXCEPT !.folders = stored, !.editingFolderId = null, !.editingName = <<>>]

handleCancelEdit(s) ==
    LET stored ==
            IF /\ s.editingFolderId # null
               /\ s.editingFolderId \in DOMAIN s.folders
               /\ s.folders[s.editingFolderId].name = NEW_FOLDER
               /\ s.editingName = NEW_FOLDER
            THEN [f \in DOMAIN s.folders \ {s.editingFolderId} |-> s.folders[f]]
            ELSE s.folders
    IN [s EXCEPT !.folders = stored, !.editingFolderId = null, !.editingName = <<>>]

handleFolderDoubleClick(s, folder) ==
    IF s.editingFolderId = folder THEN s
    ELSE [s EXCEPT !.currentFolderId = folder,
                   !.currentPath = Append(@, [id |-> folder,
                                              name |-> s.folders[folder].name])]

handlePathClick(s, index) ==
    LET newPath == slice(s.currentPath, index + 1)
    IN [s EXCEPT !.currentPath = newPath,
                 !.currentFolderId = IF index < 2 THEN null
                                     ELSE newPath[Len(newPath)].id]

handleGoBack(s) ==
    IF Len(s.currentPath) > 2
    THEN LET newPath == SubSeq(s.currentPath, 1, Len(s.currentPath) - 1)
         IN [s EXCEPT !.currentPath = newPath,
                      !.currentFolderId = newPath[Len(newPath)].id]
    ELSE [s EXCEPT !.currentPath = initialPath, !.currentFolderId = null]

handleMyFiles(s) == [s EXCEPT !.currentPath = initialPath, !.currentFolderId = null]

handleMoveFile(s, fileId) == [s EXCEPT !.moveMode = [active |-> TRUE, fileId |-> fileId]]

handleSelectDestination(s, folderId) == [s EXCEPT !.selectedDestinationFolder = folderId]

handleConfirmMove(s) ==
    LET moved ==
            IF s.moveMode.fileId # null /\ s.selectedDestinationFolder # null
            THEN [f \in DOMAIN s.files |->
                     IF f = s.moveMode.fileId
                     THEN [s.files[f] EXCEPT !.parentId = s.selectedDestinationFolder]
                     ELSE s.files[f]]
            ELSE s.files
    IN [s EXCEPT !.files = moved,
                 !.moveMode = [active |-> FALSE, fileId |-> null],
                 !.selectedDestinationFolder = null]

handleCancelMove(s) ==
    [s EXCEPT !.moveMode = [active |-> FALSE, fileId |-> null],
              !.selectedDestinationFolder = null]

InitFileManager ==
    /\ holdings = EmptyCollection
    /\ companies = EmptyCollection
    /\ departments = EmptyCollection
    /\ folders = EmptyCollection
    /\ nFolders = 0
    /\ createdUnder = {}
    /\ last = HTTP_200_OK
    /\ codec = [step |-> "off"]
    /\ pathCall = [step |-> "off"]
    /\ creators = [step |-> "off"]
    /\ gather = [step |-> "off"]
    /\ fm = [step |-> "mounted",
             currentPath |-> initialPath,
             currentFolderId |-> null,
             folders |-> initialFolders,
             files |-> initialFiles,
             editingFolderId |-> null,
             editingName |-> <<>>,
             moveMode |-> [active |-> FALSE, fileId |-> null],
             selectedDestinationFolder |-> null,
             tick |-> 0]

Render(next) ==
    /\ fm.step = "mounted"
    /\ fm' = next
    /\ UNCHANGED <<orgVars, storeVars, last, codec, pathCall, creators, gather>>

\* The input of the folder being edited holds the focus (useEffect on
\* editingFolderId) and saves on blur, so a pointer action elsewhere reaches
\* its handler only after handleSaveFolderName has run.
Focused == fm.editingFolderId # null

CreateFolderClick ==
    /\ ~Focused
    /\ fm.tick < MaxCreated
    /\ Render(handleCreateFolder(fm))

ChangeName ==
    /\ Focused
    /\ \E typed \in TypedNames : Render([fm EXCEPT !.editingName = typed])

\* Enter, or blur
SaveFolderName ==
    /\ Focused
    /\ Render(handleSaveFolderName(fm))

\* Escape
CancelEdit ==
    /\ Focused
    /\ Render(handleCancelEdit(fm))

BeginEdit ==
    /\ ~Focused
    /\ ~fm.moveMode.active
    /\ \E folder \in ClickedFolders(fm) :
          Render([fm EXCEPT !.editingFolderId = folder,
                            !.editingName = fm.folders[folder].name])

FolderDoubleClick ==
    /\ ~fm.moveMode.active
    /\ \E folder \in ClickedFolders(fm) :
          /\ Focused => fm.editingFolderId = folder
          /\ Render(handleFolderDoubleClick(fm, folder))

\* the '/' button is index -1
PathClick ==
    /\ ~Focused
    /\ \E index \in -1..(Len(fm.currentPath) - 1) : Render(handlePathClick(fm, index))

\* the button is disabled while currentPath.length <= 2
GoBack ==
    /\ ~Focused
    /\ Len(fm.currentPath) > 2
    /\ Render(handleGoBack(fm))

MyFiles ==
    /\ ~Focused
    /\ Render(handleMyFiles(fm))

MoveFile ==
    /\ ~Focused
    /\ \E fileId \in MovedFiles(fm) : Render(handleMoveFile(fm, fileId))

SelectDestination ==
    /\ ~Focused
    /\ fm.moveMode.active
    /\ \E folderId \in ClickedFolders(fm) : Render(handleSelectDestination(fm, folderId))

\* the button is disabled while no destination is selected
ConfirmMove ==
    /\ ~Focused
    /\ fm.moveMode.active
    /\ fm.selectedDestinationFolder # null
    /\ Render(handleConfirmMove(fm))

CancelMove ==
    /\ ~Focused
    /\ fm.moveMode.active
    /\ Render(handleCancelMove(fm))

NextFileManager ==
    \/ CreateFolderClick
    \/ ChangeName
    \/ SaveFolderName
    \/ CancelEdit
    \/ BeginEdit
    \/ FolderDoubleClick
    \/ PathClick
    \/ GoBack
    \/ MyFiles
    \/ MoveFile
    \/ SelectDestination
    \/ ConfirmMove
    \/ CancelMove

SpecFileManager == InitFileManager /\ [][NextFileManager]_vars

(***************************************************************************)
(* Properties                                                              *)
(***************************************************************************)
\* an id that is one of the three reserved prefixes followed by any text
HasReservedPrefix(id) ==
    /\ id # NULL
    /\ \E k \in Kinds :
          /\ Len(id) >= Len(PrefixOf(k))
          /\ \A i \in 1..Len(PrefixOf(k)) : id[i] = PrefixOf(k)[i]

\* C10: encoding a kind and a real id and decoding the result gives the real
\* id back, the encoded id has that kind and is virtual; an id (null and the
\* empty string included) that starts with none of the three reserved
\* prefixes is not virtual.
C10_CodecRoundTrip ==
    /\ codec.step \in {"decoded", "classified"} =>
          /\ codec.decoded = codec.real_id
          /\ codec.kindOf = codec.kind
          /\ codec.virtual = TRUE
    /\ (codec.step = "classified" /\ ~HasReservedPrefix(codec.plain)) =>
          codec.plainVirtual = FALSE

C10_Witness ==
    /\ codec.step = "classified"
    /\ codec.kind = "department"
    /\ codec.decoded = codec.real_id
    /\ codec.plain = EMPTY
    /\ codec.plainVirtual = FALSE

\* the ids of a node list, and whether a list names no id twice
NodeIds(nodes) == {nodes[i].id : i \in 1..Len(nodes)}
NoDuplicates(nodes) == Cardinality(NodeIds(nodes)) = Len(nodes)

\* department d, its company and that company's holding all exist
LineageExists(d) ==
    /\ d \in DOMAIN departments
    /\ departments[d].company_id \in DOMAIN companies
    /\ companies[departments[d].company_id].holding_id \in DOMAIN holdings

CompanyOf(d) == departments[d].company_id
HoldingOf(d) == companies[departments[d].company_id].holding_id

\* C1: create-folder under the virtual node of department D, whose company
\* and holding exist, stores a new real folder with parent id null and
\* context (holding of D's company, D's company, D); the other stored
\* folders are untouched.  It succeeds for every caller whose scope holds D.
C1_CreateUnderDepartment ==
    \A user \in Permitted(FOLDER_CREATE), name \in NameInputs, d \in DepartmentIds :
        (LineageExists(d) /\ nFolders < MaxFolders) =>
            LET r == create_folder([name |-> name,
                                    parentID |-> DEPARTMENT_PREFIX \o d], user)
            IN /\ (\/ user.role = SUPERADMIN
                   \/ user.company_id = CompanyOf(d)
                   \/ user.department_id = d) => r.status = HTTP_200_OK
               /\ r.status = HTTP_200_OK =>
                     /\ r.id \notin DOMAIN folders
                     /\ DOMAIN r.folders = DOMAIN folders \cup {r.id}
                     /\ ~HasReservedPrefix(r.id)
                     /\ r.folders[r.id].name = name
                     /\ r.folders[r.id].parentID = NULL
                     /\ r.folders[r.id].department_id = d
                     /\ r.folders[r.id].company_id = CompanyOf(d)
                     /\ r.folders[r.id].holding_id = HoldingOf(d)
                     /\ \A f \in DOMAIN folders : r.folders[f] = folders[f]
               /\ r.status # HTTP_200_OK => r.folders = folders

C1_Witness ==
    /\ last = HTTP_200_OK
    /\ \E f \in DOMAIN folders, d \in DepartmentIds :
          /\ LineageExists(d)
          /\ folders[f].parentID = NULL
          /\ folders[f].department_id = d
          /\ folders[f].company_id = CompanyOf(d)
          /\ folders[f].holding_id = HoldingOf(d)

RECURSIVE RealChain(_, _)
\* the stored folders from the top-level ancestor down to f, following
\* parent ids; empty when the chain is broken or runs in a cycle
RealChain(f, n) ==
    IF n = 0 \/ f \notin DOMAIN folders THEN <<>>
    ELSE IF folders[f].parentID = NULL THEN <<f>>
    ELSE LET up == RealChain(folders[f].parentID, n - 1)
         IN IF up = <<>> THEN <<>> ELSE Append(up, f)

ChainOf(f) == RealChain(f, MaxFolders)

\* f is a top-level folder of department d or nested beneath one
NestedUnder(d, f) ==
    /\ ChainOf(f) # <<>>
    /\ folders[ChainOf(f)[1]].department_id = d

\* [H-node, C-node, D-node] followed by the real chain ending with f
ExpectedPath(d, f) ==
    <<holding_to_folder(HoldingResponse(HoldingOf(d))),
      company_to_folder(CompanyResponse(CompanyOf(d))),
      department_to_folder(DepartmentResponse(d))>>
    \o MapSeq(ChainOf(f), DocResponse)

\* the caller's org filter admits every folder of the chain of f
ChainAdmitted(f, user) ==
    \A i \in 1..Len(ChainOf(f)) : org_filter_matches(folders[ChainOf(f)[i]], user)

\* C2 as stated: for every caller, get-path of a folder under department D
\* is [H-node, C-node, D-node] followed by the real chain.
C2_Original ==
    \A user \in Permitted(FOLDER_READ), d \in DepartmentIds, f \in DOMAIN folders :
        (LineageExists(d) /\ NestedUnder(d, f)) =>
            get_folder_path(f, user) = [ends |-> TRUE, path |-> ExpectedPath(d, f)]

\* C2 (amended): for a caller whose org filter admits the folders of the
\* chain, get-path of a folder that is a top-level folder of department D or
\* nested beneath one is [H-node, C-node, D-node] followed by the real chain,
\* root-most first and ending with the target.
C2_PathUnderDepartment ==
    \A user \in Permitted(FOLDER_READ), d \in DepartmentIds, f \in DOMAIN folders :
        (LineageExists(d) /\ NestedUnder(d, f) /\ ChainAdmitted(f, user)) =>
            get_folder_path(f, user) = [ends |-> TRUE, path |-> ExpectedPath(d, f)]

C2_Witness ==
    \E user \in Permitted(FOLDER_READ), d \in DepartmentIds, f \in DOMAIN folders :
        /\ user.role = DEPARTMENT_DIRECTOR
        /\ LineageExists(d)
        /\ NestedUnder(d, f)
        /\ ChainAdmitted(f, user)
        /\ Len(ChainOf(f)) = 2
        /\ Len(get_folder_path(f, user).path) = 5

\* the stored top-level folders whose context names department d
TopLevelOf(d) ==
    {f \in DOMAIN folders : folders[f].parentID = NULL /\ folders[f].department_id = d}

DepartmentChildren(d, user) == get_subfolders(DEPARTMENT_PREFIX \o d, user)

\* C3: list-children of the virtual node of department D returns exactly the
\* real folders with parent id null and departmentId = D, each once and as
\* stored; a folder of D with a non-null parent id is not in the result.
C3_DepartmentChildren ==
    \A user \in Permitted(FOLDER_READ), d \in DepartmentIds :
        LET nodes == DepartmentChildren(d, user)
        IN /\ NodeIds(nodes) = TopLevelOf(d)
           /\ NoDuplicates(nodes)
           /\ \A i \in 1..Len(nodes) : nodes[i] = DocResponse(nodes[i].id)
           /\ \A f \in DOMAIN folders :
                 (folders[f].department_id = d /\ folders[f].parentID # NULL)
                     => f \notin NodeIds(nodes)

C3_Witness ==
    \E d \in DepartmentIds, f \in DOMAIN folders, g \in DOMAIN folders :
        /\ folders[f].department_id = d
        /\ folders[f].parentID = NULL
        /\ folders[g].department_id = d
        /\ folders[g].parentID = f
        /\ \A user \in Permitted(FOLDER_READ) : NodeIds(DepartmentChildren(d, user)) = {f}

\* every caller's list-children of department d's virtual node names f
Listed(d, f) ==
    \A user \in Permitted(FOLDER_READ) : f \in NodeIds(DepartmentChildren(d, user))

\* C4: a folder that create-folder stored under the virtual node of
\* department D, and that was neither deleted nor moved since, is in
\* list-children of that node, whoever asks and whatever was renamed,
\* created or removed in between.
C4_CreatedFolderStaysListed ==
    \A p \in createdUnder : Listed(p[2], p[1])

C4_Witness ==
    \E p \in createdUnder :
        /\ Listed(p[2], p[1])
        /\ p[1] = FolderId(1)
        /\ folders[p[1]].name = "B"
        /\ p[2] \notin DOMAIN departments
        /\ nFolders = MaxFolders

\* virtual ids a caller can pass: those of the directory's entities, of ids
\* that never existed, of folder ids, and the bare prefixes
VirtualIdsTried ==
    VirtualIdInputs
    \cup {PrefixOf(k) : k \in Kinds}
    \cup {PrefixOf(k) \o <<"e", "9">> : k \in Kinds}
    \cup {PrefixOf(k) \o f : k \in Kinds, f \in FolderIdInputs}

AllVirtual(nodes) == \A i \in 1..Len(nodes) : HasReservedPrefix(nodes[i].id)
AllReal(nodes) == \A i \in 1..Len(nodes) : ~HasReservedPrefix(nodes[i].id)

HoldingNodeIds == {HOLDING_PREFIX \o h : h \in DOMAIN holdings}
DepartmentNodeIdsOf(company_id) ==
    {DEPARTMENT_PREFIX \o d :
        d \in {x \in DOMAIN departments : departments[x].company_id = company_id}}

\* C6: which list list-root returns is decided by the caller's role alone:
\* the virtual list for superadmin and admin, also when it is empty (never
\* the stored folders instead), the stored-folder list for director and user.
C6_RootModeByRole ==
    \A user \in Permitted(FOLDER_READ) :
        LET nodes == get_root_folders(user)
        IN IF user.role \in {SUPERADMIN, ADMIN}
           THEN AllVirtual(nodes) /\ nodes = get_root_folders_for_user(user)
           ELSE AllReal(nodes) /\ nodes = real_root_folders(user)

\* C7: for the superadmin list-root is one holding node per existing
\* holding, no node twice, nothing else.
C7_SuperadminRoot ==
    \A user \in Permitted(FOLDER_READ) :
        user.role = SUPERADMIN =>
            LET nodes == get_root_folders(user)
            IN /\ NodeIds(nodes) = HoldingNodeIds
               /\ NoDuplicates(nodes)

\* C8: for an admin list-root is exactly the department nodes of the
\* admin's own company: no holding node, no company node, no department of
\* another company, nothing else.
C8_AdminRoot ==
    \A user \in Permitted(FOLDER_READ) :
        user.role = ADMIN =>
            LET nodes == get_root_folders(user)
            IN /\ NodeIds(nodes) = DepartmentNodeIdsOf(user.company_id)
               /\ NoDuplicates(nodes)

\* C9: for a director or a user list-root holds only stored folders with
\* parent id null whose departmentId is the caller's department: no virtual
\* node, no folder of another department.
C9_DepartmentRoleRoot ==
    \A user \in Permitted(FOLDER_READ) :
        user.role \in {DEPARTMENT_DIRECTOR, USER} =>
            LET nodes == get_root_folders(user)
            IN \A i \in 1..Len(nodes) :
                  /\ ~HasReservedPrefix(nodes[i].id)
                  /\ nodes[i].id \in DOMAIN folders
                  /\ folders[nodes[i].id].parentID = NULL
                  /\ folders[nodes[i].id].department_id = user.department_id

C9_Witness ==
    \E user \in Permitted(FOLDER_READ), g \in DOMAIN folders :
        /\ user.role = USER
        /\ Len(get_root_folders(user)) = 1
        /\ folders[g].parentID = NULL
        /\ folders[g].department_id # user.department_id
        /\ g \notin NodeIds(get_root_folders(user))


\* the fields a department node must carry when the department's company exists
IsDepartmentNodeOf(node, d) ==
    /\ node.id = DEPARTMENT_PREFIX \o d
    /\ node.parentID = COMPANY_PREFIX \o departments[d].company_id
    /\ node.holding_id = companies[departments[d].company_id].holding_id
    /\ node.company_id = departments[d].company_id
    /\ node.department_id = d

NodeOf(nodes, id) == {nodes[i] : i \in {j \in 1..Len(nodes) : nodes[j].id = id}}

\* C11: for every department D whose company exists, the node of D has id
\* department:D, parent company:C and context (holding of C, C, D) on each
\* path that produces it: get-node, list-children of company C, and list-root
\* of an admin of C.
C11_DepartmentNode ==
    \A d \in DOMAIN departments :
        departments[d].company_id \in DOMAIN companies =>
            \A user \in Permitted(FOLDER_READ) :
                LET node == get_folder_by_id(DEPARTMENT_PREFIX \o d, user)
                    children == get_subfolders(COMPANY_PREFIX \o departments[d].company_id, user)
                    root == get_root_folders(user)
                IN /\ node # None
                   /\ IsDepartmentNodeOf(node, d)
                   /\ NodeOf(children, DEPARTMENT_PREFIX \o d) = {node}
                   /\ (user.role = ADMIN /\ user.company_id = departments[d].company_id) =>
                          NodeOf(root, DEPARTMENT_PREFIX \o d) = {node}

C11_Witness ==
    /\ DOMAIN holdings = {}
    /\ \E d \in DOMAIN departments, user \in Permitted(FOLDER_READ) :
          /\ departments[d].company_id = CompanyId(2)
          /\ CompanyId(2) \in DOMAIN companies
          /\ user.role = ADMIN
          /\ user.company_id = CompanyId(2)
          /\ \E n \in NodeOf(get_root_folders(user), DEPARTMENT_PREFIX \o d) :
                n.holding_id = HoldingId(1)


\* the callers whose organization scope covers department d
ScopeCovers(user, d) ==
    \/ user.role = SUPERADMIN
    \/ user.role = ADMIN /\ user.company_id = departments[d].company_id
    \/ user.role \in {DEPARTMENT_DIRECTOR, USER} /\ user.department_id = d

OrphanDepartments ==
    {d \in DOMAIN departments : departments[d].company_id \notin DOMAIN companies}

\* C12: when the company of department D is missing, the node of D and the
\* parent context of a create-folder under department:D are still produced,
\* with an empty holding id and the company id and department id of D; the
\* creation succeeds and stores that context.
C12_MissingCompanyDegrades ==
    \A d \in OrphanDepartments :
        /\ \A user \in Permitted(FOLDER_READ) :
              LET node == get_folder_by_id(DEPARTMENT_PREFIX \o d, user)
              IN /\ node # None
                 /\ node.holding_id = EMPTY
                 /\ node.company_id = departments[d].company_id
                 /\ node.department_id = d
        /\ \A user \in Permitted(FOLDER_CREATE), name \in NameInputs :
              ScopeCovers(user, d) =>
                  LET context == resolve_parent_context(DEPARTMENT_PREFIX \o d, user)
                      r == create_folder([name |-> name, parentID |-> DEPARTMENT_PREFIX \o d],
                                         user)
                  IN /\ ~IsFailure(context)
                     /\ context.holding_id = EMPTY
                     /\ context.company_id = departments[d].company_id
                     /\ context.department_id = d
                     /\ r.status = HTTP_200_OK
                     /\ r.id \in DOMAIN r.folders \ DOMAIN folders
                     /\ r.folders[r.id].holding_id = EMPTY
                     /\ r.folders[r.id].company_id = departments[d].company_id
                     /\ r.folders[r.id].department_id = d

C12_Witness ==
    \E p \in createdUnder :
        /\ p[2] \in OrphanDepartments
        /\ p[1] \in DOMAIN folders
        /\ folders[p[1]].holding_id = EMPTY
        /\ folders[p[1]].company_id = departments[p[2]].company_id
        /\ folders[p[1]].department_id = p[2]
        /\ last = HTTP_200_OK


\* C13: get-path terminates for every target id and every content of the
\* folder store, stores whose parentID links form a cycle included.
C13_GetPathTerminates ==
    \A user \in Permitted(FOLDER_READ), folder_id \in IdInputs :
        get_folder_path(folder_id, user).ends


\* C14: the list get-path returns never holds the same node id twice, for
\* every target and every content of the store and of the directory.
C14_PathHasNoDuplicates ==
    \A user \in Permitted(FOLDER_READ), folder_id \in IdInputs :
        LET r == get_folder_path(folder_id, user)
        IN r.ends => NoDuplicates(r.path)


RealNodes(nodes) == {nodes[i] : i \in {j \in 1..Len(nodes) : ~HasReservedPrefix(nodes[j].id)}}

\* every node a read of this caller returns: get-node, list-root,
\* list-children and get-path (when it ends), for every id
NodesReturnedTo(user) ==
    UNION {RealNodes(get_subfolders(id, user)) : id \in IdInputs}
    \cup UNION {RealNodes(get_folder_path(id, user).path) :
                   id \in {i \in IdInputs : get_folder_path(i, user).ends}}
    \cup RealNodes(get_root_folders(user))
    \cup {get_folder_by_id(id, user) :
             id \in {i \in FolderIdInputs : get_folder_by_id(i, user) # None}}

\* C16: no read made by a director or user returns a stored folder of
\* another department, and none made by an admin returns a stored folder of
\* another company; list-children of another department's virtual id
\* included.
C16_NoForeignFolderReturned ==
    \A user \in Permitted(FOLDER_READ) :
        \A node \in NodesReturnedTo(user) :
            /\ user.role \in {DEPARTMENT_DIRECTOR, USER} =>
                  node.department_id = user.department_id
            /\ user.role = ADMIN => node.company_id = user.company_id


HTTP_403_FORBIDDEN == "403 Forbidden"

\* C17: create-folder under the virtual node of a department outside the
\* caller's organization scope (another department for a director, a
\* department of another company for an admin) fails with Forbidden and
\* writes no folder.
C17_ForeignParentForbidden ==
    \A user \in Permitted(FOLDER_CREATE), d \in DOMAIN departments, name \in NameInputs :
        ~ScopeCovers(user, d) =>
            LET r == create_folder([name |-> name, parentID |-> DEPARTMENT_PREFIX \o d], user)
            IN /\ r.status = HTTP_403_FORBIDDEN
               /\ r.folders = folders


\* the virtual ids whose holding, company or department is not in the
\* directory
DanglingVirtualIds ==
    {HOLDING_PREFIX \o h : h \in HoldingIds \ DOMAIN holdings}
    \cup {COMPANY_PREFIX \o c : c \in CompanyIds \ DOMAIN companies}
    \cup {DEPARTMENT_PREFIX \o d : d \in DepartmentIds \ DOMAIN departments}

C19_UnknownPrefixNotFound ==
    \A user \in Permitted(FOLDER_READ), folder_id \in MalformedIdInputs :
        /\ get_folder_response(folder_id, user).status = HTTP_404_NOT_FOUND
        /\ get_subfolders_response(folder_id, user).status = HTTP_404_NOT_FOUND
        /\ get_folder_path_response(folder_id, user).status = HTTP_404_NOT_FOUND


\* C20: a GET of the literal segment "root" is served by list-root, never by
\* get-node with id "root": the literal route is matched before the route
\* with the id parameter.
C20_RootRouteFirst ==
    /\ dispatch(ROOT) = "/root"
    /\ \A user \in Permitted(FOLDER_READ) :
          /\ get_request(ROOT, user) = get_root_folders_response(user)
          /\ get_request(ROOT, user) # get_folder_response(ROOT, user)

C20_Witness ==
    /\ nFolders > 0
    /\ last = HTTP_200_OK
    /\ \E user \in Permitted(FOLDER_READ) :
          /\ user.role = SUPERADMIN
          /\ get_request(ROOT, user).body = get_root_folders(user)
          /\ Len(get_request(ROOT, user).body) = MaxHoldings
          /\ get_folder_response(ROOT, user).status = HTTP_404_NOT_FOUND


\* the context a creation under department:d stores when run on its own
SequentialContext(d) ==
    [holding_id |-> IF departments[d].company_id \in DOMAIN companies
                    THEN companies[departments[d].company_id].holding_id ELSE EMPTY,
     company_id |-> departments[d].company_id,
     department_id |-> d]

BothDone == creators.step = "running" /\ \A i \in 1..2 : creators.calls[i].pc = "done"

StoredContext(f) ==
    [holding_id |-> folders[f].holding_id, company_id |-> folders[f].company_id,
     department_id |-> folders[f].department_id]

\* C21: two create-folder calls under the same department node, their
\* reads and writes interleaved in any order, both succeed and leave two
\* distinct stored folders, each with parentID null, its own name and the
\* context a call on its own would store.
C21_ConcurrentCreates ==
    \A d \in DOMAIN departments :
        (/\ BothDone
         /\ creators.parentID = DEPARTMENT_PREFIX \o d
         /\ \A i \in 1..2 : ScopeCovers(creators.calls[i].user, d)) =>
            /\ creators.calls[1].id # creators.calls[2].id
            /\ Cardinality(DOMAIN folders) = 2
            /\ \A i \in 1..2 :
                  LET call == creators.calls[i]
                  IN /\ call.status = HTTP_200_OK
                     /\ call.id \in DOMAIN folders
                     /\ folders[call.id].parentID = NULL
                     /\ folders[call.id].name = call.name
                     /\ StoredContext(call.id) = SequentialContext(d)

C21_Witness ==
    /\ BothDone
    /\ creators.calls[1].user.role = DEPARTMENT_DIRECTOR
    /\ creators.calls[2].user.role = SUPERADMIN
    /\ \E d \in DOMAIN departments :
          /\ creators.parentID = DEPARTMENT_PREFIX \o d
          /\ ScopeCovers(creators.calls[1].user, d)
          /\ creators.calls[2].id = FolderId(1)
          /\ creators.calls[1].id = FolderId(2)
          /\ StoredContext(FolderId(1)) = StoredContext(FolderId(2))
          /\ folders[FolderId(1)].holding_id = HoldingId(1)


\* C22: create-folder with a stored folder P as parent stores the new folder
\* with parentID P and the holding, company and department ids of P's own
\* document; with no parent the stored parentID is null.
C22_RealParentInherits ==
    \A user \in Permitted(FOLDER_CREATE), name \in NameInputs :
        /\ \A P \in DOMAIN folders :
              org_filter_matches(folders[P], user) =>
                  LET r == create_folder([name |-> name, parentID |-> P], user)
                  IN /\ r.status = HTTP_200_OK
                     /\ r.id \in DOMAIN r.folders \ DOMAIN folders
                     /\ r.folders[r.id].parentID = P
                     /\ r.folders[r.id].holding_id = folders[P].holding_id
                     /\ r.folders[r.id].company_id = folders[P].company_id
                     /\ r.folders[r.id].department_id = folders[P].department_id
                     /\ \A f \in DOMAIN folders : r.folders[f] = folders[f]
        /\ LET r == create_folder([name |-> name, parentID |-> NULL], user)
           IN /\ r.status = HTTP_200_OK
              /\ r.id \in DOMAIN r.folders \ DOMAIN folders
              /\ r.folders[r.id].parentID = NULL

\* a child that carries its parent's holding id although the company that
\* holding id was derived from is gone, next to a folder stored with no parent
C22_Witness ==
    /\ last = HTTP_200_OK
    /\ FolderId(2) \in DOMAIN folders
    /\ FolderId(1) \in DOMAIN folders
    /\ folders[FolderId(2)].parentID = FolderId(1)
    /\ folders[FolderId(1)].parentID = NULL
    /\ folders[FolderId(2)].holding_id = folders[FolderId(1)].holding_id
    /\ folders[FolderId(2)].company_id = folders[FolderId(1)].company_id
    /\ folders[FolderId(2)].department_id = folders[FolderId(1)].department_id
    /\ folders[FolderId(2)].holding_id # EMPTY
    /\ folders[FolderId(2)].company_id \notin DOMAIN companies


\* the names of a list are in ascending order
AscendingByName(nodes) ==
    \A i \in 1..Len(nodes), j \in 1..Len(nodes) :
        i < j => NameRank(nodes[i].name) <= NameRank(nodes[j].name)

\* C23: list-children of a department node and of a stored folder return
\* their nodes in ascending order of name; for a stored parent P the nodes
\* are exactly the stored folders with parentID P that the caller's filter
\* admits.
C23_ChildrenSortedByName ==
    \A user \in Permitted(FOLDER_READ) :
        /\ \A d \in DepartmentIds :
              AscendingByName(get_subfolders(DEPARTMENT_PREFIX \o d, user))
        /\ \A P \in FolderIdInputs :
              LET nodes == get_subfolders(P, user)
              IN /\ AscendingByName(nodes)
                 /\ NoDuplicates(nodes)
                 /\ NodeIds(nodes) = {f \in DOMAIN folders :
                                         /\ folders[f].parentID = P
                                         /\ org_filter_matches(folders[f], user)}
                 /\ \A i \in 1..Len(nodes) : nodes[i] = DocResponse(nodes[i].id)

C23_Witness ==
    /\ nFolders = 3
    /\ \E user \in Permitted(FOLDER_READ), d \in DepartmentIds :
          /\ user.role = DEPARTMENT_DIRECTOR
          /\ LET nodes == get_subfolders(FolderId(1), user)
             IN /\ Len(nodes) = 2
                /\ nodes[1].id = FolderId(3)
                /\ nodes[2].id = FolderId(2)
                /\ nodes[1].name = FolderNames[1]
                /\ nodes[2].name = FolderNames[2]
          /\ Len(get_subfolders(DEPARTMENT_PREFIX \o d, user)) = 1


\* the ids of the holding nodes in a path
HoldingNodesIn(path) ==
    {path[i].id : i \in {j \in 1..Len(path) :
                            /\ Len(path[j].id) >= Len(HOLDING_PREFIX)
                            /\ SubSeq(path[j].id, 1, Len(HOLDING_PREFIX)) = HOLDING_PREFIX}}

\* C24: in get-path, when the root-most stored folder has an empty holding
\* id and a company id, the path starts with the node of that company's
\* holding if the company exists; if the company lookup fails the path is
\* still returned and has no holding node.
C24_HoldingFallback ==
    \A user \in Permitted(FOLDER_READ), f \in DOMAIN folders :
        LET r == get_folder_path(f, user)
            top == folders[ChainOf(f)[1]]
        IN (/\ ChainOf(f) # <<>>
            /\ ChainAdmitted(f, user)
            /\ top.holding_id = EMPTY
            /\ top.company_id # EMPTY) =>
               /\ r.ends
               /\ r.path # <<>>
               /\ r.path[Len(r.path)].id = f
               /\ IF top.company_id \notin DOMAIN companies
                  THEN HoldingNodesIn(r.path) = {}
                  ELSE IF companies[top.company_id].holding_id \in DOMAIN holdings
                  THEN /\ r.path[1].id = HOLDING_PREFIX \o companies[top.company_id].holding_id
                       /\ r.path[1].holding_id = companies[top.company_id].holding_id
                       /\ HoldingNodesIn(r.path) = {r.path[1].id}
                  ELSE HoldingNodesIn(r.path) = {}

C24_Witness ==
    /\ nFolders = 2
    /\ FolderId(2) \in DOMAIN folders
    /\ folders[FolderId(2)].parentID = FolderId(1)
    /\ folders[FolderId(1)].holding_id = EMPTY
    /\ folders[FolderId(1)].company_id \in DOMAIN companies
    /\ \E user \in Permitted(FOLDER_READ) :
          LET r == get_folder_path(FolderId(2), user)
          IN /\ r.ends
             /\ Len(r.path) = 5
             /\ r.path[1].id = HOLDING_PREFIX \o HoldingId(1)


\* 1, 2, 3 for the id of a holding, company, department node; 4 for any
\* other id
KindRank(id) ==
    IF Len(id) >= Len(HOLDING_PREFIX) /\ SubSeq(id, 1, Len(HOLDING_PREFIX)) = HOLDING_PREFIX
    THEN 1
    ELSE IF Len(id) >= Len(COMPANY_PREFIX)
            /\ SubSeq(id, 1, Len(COMPANY_PREFIX)) = COMPANY_PREFIX
    THEN 2
    ELSE IF Len(id) >= Len(DEPARTMENT_PREFIX)
            /\ SubSeq(id, 1, Len(DEPARTMENT_PREFIX)) = DEPARTMENT_PREFIX
    THEN 3
    ELSE 4

\* the holding id the prefix of a root-most folder is built from
EffectiveHolding(top) ==
    IF top.holding_id = EMPTY /\ top.company_id \in DOMAIN companies
    THEN companies[top.company_id].holding_id
    ELSE top.holding_id

\* the node ids the prefix of a root-most folder must hold
PrefixIds(top) ==
    {HOLDING_PREFIX \o h : h \in {EffectiveHolding(top)} \cap DOMAIN holdings}
    \cup {COMPANY_PREFIX \o c : c \in {top.company_id} \cap DOMAIN companies}
    \cup {DEPARTMENT_PREFIX \o d : d \in {top.department_id} \cap DOMAIN departments}

\* C25: in the path of a stored folder the virtual nodes come first, in the
\* order holding, company, department; a node whose context id is empty or
\* whose entity cannot be resolved is left out and the others keep their
\* order; every stored folder of the chain comes after them.
C25_PrefixOrder ==
    \A user \in Permitted(FOLDER_READ), f \in DOMAIN folders :
        (ChainOf(f) # <<>> /\ ChainAdmitted(f, user)) =>
            LET r == get_folder_path(f, user)
                n == Len(r.path) - Len(ChainOf(f))
            IN /\ r.ends
               /\ n >= 0
               /\ {r.path[i].id : i \in 1..n} = PrefixIds(folders[ChainOf(f)[1]])
               /\ \A i \in 1..n, j \in 1..n :
                     i < j => KindRank(r.path[i].id) < KindRank(r.path[j].id)
               /\ \A i \in 1..Len(ChainOf(f)) : r.path[n + i].id = ChainOf(f)[i]

\* holding node, department node, folder: the company of the folder is gone
C25_Witness ==
    \E user \in Permitted(FOLDER_READ), f \in DOMAIN folders, d \in DOMAIN departments :
        LET r == get_folder_path(f, user)
        IN /\ r.ends
           /\ Len(r.path) = 3
           /\ r.path[1].id = HOLDING_PREFIX \o HoldingId(1)
           /\ r.path[2].id = DEPARTMENT_PREFIX \o d
           /\ r.path[3].id = f
           /\ folders[f].company_id \notin DOMAIN companies


DepartmentsOf(company_id) ==
    {d \in DOMAIN departments : departments[d].company_id = company_id}

\* C26: list-children of a company node returns only after every company
\* lookup has completed, and the result holds exactly one department node
\* per department of the company, each with its resolved holding id, in
\* whatever order the lookups complete.
C26_GatherJoins ==
    gather.step = "returned" =>
        LET c == gather.company_id
            result == gather.result
        IN /\ gather.pending = {}
           /\ Len(gather.order) = Len(gather.departments)
           /\ Len(result) = Cardinality(DepartmentsOf(c))
           /\ \A i \in 1..Len(result) : result[i] # None
           /\ {result[i].id : i \in 1..Len(result)} =
                 {DEPARTMENT_PREFIX \o d : d \in DepartmentsOf(c)}
           /\ \A i \in 1..Len(result) :
                 /\ result[i].department_id \in DepartmentsOf(c)
                 /\ result[i].company_id = c
                 /\ result[i].holding_id =
                       IF c \in DOMAIN companies THEN companies[c].holding_id ELSE EMPTY
           /\ result = get_subfolders(COMPANY_PREFIX \o c, gather.user)

\* the second department's lookup completed first
C26_Witness ==
    /\ gather.step = "returned"
    /\ gather.order = <<2, 1>>
    /\ Len(gather.result) = 2
    /\ gather.result[1].id = DEPARTMENT_PREFIX \o DepartmentId(1)
    /\ gather.result[2].id = DEPARTMENT_PREFIX \o DepartmentId(2)
    /\ gather.result[1].holding_id = HoldingId(1)
    /\ gather.result[2].holding_id = HoldingId(1)


WalkCutShort(f, user) ==
    /\ f \in DOMAIN folders
    /\ get_folder_path(f, user).ends
    /\ get_folder_path(f, user).path # <<>>
    /\ get_folder_path(f, user).path[1].parentID # NULL

\* C28: get-path of a target the caller cannot resolve (missing, or excluded
\* by the org filter) is the empty list; when the walk stops at an ancestor
\* the caller cannot resolve, the result is the resolved real chain alone,
\* child after parent and ending with the target; a virtual node appears in
\* a path only when the root-most resolved folder has parentID null.
C28_UnresolvedStopsThePath ==
    \A user \in Permitted(FOLDER_READ), f \in ReadInputs :
        LET result == get_folder_path(f, user)
            path == result.path
        IN /\ get_folder_by_id(f, user) = None =>
                 result = [ends |-> TRUE, path |-> <<>>]
           /\ (result.ends /\ path # <<>> /\ ~is_virtual_folder(f)) =>
                 LET reals == {i \in 1..Len(path) : ~is_virtual_folder(path[i].id)}
                     first == CHOOSE i \in reals : \A j \in reals : i <= j
                 IN /\ path[Len(path)].id = f
                    /\ reals = first..Len(path)
                    /\ \A i \in reals : find_one(path[i].id, user) = path[i]
                    /\ \A i \in reals \ {first} : path[i].parentID = path[i - 1].id
                    /\ path[first].parentID # NULL =>
                          /\ first = 1
                          /\ find_one(path[first].parentID, user) = None
                    /\ first > 1 => path[first].parentID = NULL

C28_Witness ==
    /\ last = HTTP_200_OK
    /\ \E user \in Permitted(FOLDER_READ), f \in DOMAIN folders :
          /\ WalkCutShort(f, user)
          /\ folders[f].parentID \in DOMAIN folders
          /\ find_one(folders[f].parentID, user) = None
          /\ get_folder_path(folders[f].parentID, user).path = <<>>
          /\ AllReal(get_folder_path(f, user).path)


\* C29 as stated: after any sequence of navigation actions of the FileManager
\* (folder double-click, breadcrumb click at any index, the '/' button, back,
\* 'My files'), currentPath starts with the segments root and user, and
\* currentFolderId is null exactly when currentPath has length 2 and is
\* otherwise the id of the last segment.
C29_PathAndCurrentFolderAgree ==
    fm.step = "mounted" =>
        /\ Len(fm.currentPath) >= 2
        /\ fm.currentPath[1].id = "root"
        /\ fm.currentPath[2].id = "user"
        /\ fm.currentFolderId = null <=> Len(fm.currentPath) = 2
        /\ Len(fm.currentPath) > 2 =>
              fm.currentFolderId = fm.currentPath[Len(fm.currentPath)].id

\* C30 as stated: after any sequence of create-folder, begin-edit, save-name,
\* cancel-edit, navigate and move-file actions of the FileManager, every
\* folder's and every file's parentId is null or the id of a folder in the
\* folder list, and so is currentFolderId.
C30_ParentsPresent ==
    fm.step = "mounted" =>
        /\ \A f \in DOMAIN fm.folders :
              fm.folders[f].parentId \in {null} \cup DOMAIN fm.folders
        /\ \A f \in DOMAIN fm.files :
              fm.files[f].parentId \in {null} \cup DOMAIN fm.folders
        /\ fm.currentFolderId \in {null} \cup DOMAIN fm.folders

====
